---- MODULE Spec2Model ----
(***************************************************************************)
(* A model of rosedblabs/rust-practice:                                    *)
(*   - MiniBitcask (src/src/bitcask.rs): an append-only log of records     *)
(*     with an in-memory KeyDir, point operations, range and prefix scans; *)
(*   - the MVCC transaction layer (src/mvcc/src/main.rs).                  *)
(* The log file is a sequence of bytes; keys and values are sequences of   *)
(* bytes; the KeyDir is a function from keys to <<value_pos, value_len>>.  *)
(***************************************************************************)
EXTENDS Integers, Sequences, FiniteSets, TLC

(***************************************************************************)
(* Bounds of the model and input alphabets.                                *)
(***************************************************************************)
\* records appended to one log in the point-operation specification
MaxOps == 3
\* records appended to one log in the scan specification
MaxScanOps == 2
\* records in a log that is cut and reopened
MaxLogRecords == 2
\* bits of the words that stand for u32 and i32 where the length arithmetic
\* of write_entry is followed up to its limits
WordBits == 5
\* transactions begun in one run
MaxTxns == 2
\* writes one transaction makes
MaxWrites == 2

\* keys given to set/get/delete: the empty key, keys that are prefixes of
\* one another, and a key ending in 0xFF
Keys == { <<>>, <<97>>, <<97, 98>>, <<98>>, <<255>> }
\* values given to set: the empty value and values of length 1 and 2
Values == { <<>>, <<1>>, <<2, 3>> }
\* keys used as range bounds by scan
RangeKeys == { <<>>, <<97>>, <<98>> }
\* prefixes given to scan_prefix
Prefixes == { <<>>, <<97>>, <<97, 98>>, <<255>>, <<97, 255>> }

\* transactions begun after the seeding one in a run of main's calls
MainTxns == 3

\* the keys main seeds, b"a" to b"e", the keys it sets afterwards, b"a" and
\* b"e", and the key it deletes, b"b"
MainKeys == { <<97>>, <<98>>, <<99>>, <<100>>, <<101>> }
MainSetKeys == { <<97>>, <<101>> }
MainDeleteKeys == { <<98>> }
\* main's values: b"a1" is the seeded value of b"a", b"a2" the one set later
MainValue(k, n) == k \o <<48 + n>>

\* raw keys and values given to Transaction::set/get/delete
RawKeys == { <<97>>, <<98>> }
RawValues == { <<49>>, <<50>> }
\* the threads that run transactions on one MVCC
Threads == { 1, 2 }

KEY_VAL_HEADER_LEN == 4

\* static VERSION: AtomicU64 = AtomicU64::new(1)
FirstVersion == 1
\* the last version whose eight bytes have one non-zero byte; the counter
\* stands here after 254 transactions that began and committed without writing
LateVersion == 256 - 1

VARIABLES
    file,      \* Log.file: the bytes of the log file
    keydir,    \* MiniBitcask.keydir
    hist,      \* the set/delete calls made so far, in order
    iter,      \* the live ScanIterator: None, or Some(keys left in inner)
    scanCall,  \* the last scan or scan_prefix call, until its iterator is dropped
    yielded,   \* what the live iterator has returned so far
    result,    \* what the last MiniBitcask call returned
    VERSION,      \* static VERSION: the next version number
    ACTIVE_TXN,   \* static ACTIVE_TXN: version -> keys written
    kv,           \* the KVEngine behind MVCC.kv: encoded key -> Option<value>
    kvLock,       \* the thread holding the mutex of kv, 0 when free
    regLock,      \* the thread holding the mutex of ACTIVE_TXN, 0 when free
    kvPoisoned,   \* a thread panicked while holding the mutex of kv
    regPoisoned,  \* a thread panicked while holding the mutex of ACTIVE_TXN
    txn,          \* per thread: its Transaction and where it is in a call
    committed,    \* the versions whose commit has returned
    last          \* what the last Transaction call returned

bvars == <<file, keydir, hist, iter, scanCall, yielded, result>>
mvars == <<VERSION, ACTIVE_TXN, kv, kvLock, regLock, kvPoisoned, regPoisoned, txn,
           committed, last>>
vars == <<file, keydir, hist, iter, scanCall, yielded, result,
          VERSION, ACTIVE_TXN, kv, kvLock, regLock, kvPoisoned, regPoisoned, txn,
          committed, last>>

(***************************************************************************)
(* Option<T> and byte-string order.                                        *)
(***************************************************************************)
None == <<>>
Some(x) == <<x>>

\* Vec<u8> : Ord, the order of the KeyDir BTreeMap
RECURSIVE LexLess(_, _)
LexLess(a, b) ==
    IF a = <<>> THEN b # <<>>
    ELSE IF b = <<>> THEN FALSE
    ELSE IF Head(a) # Head(b) THEN Head(a) < Head(b)
    ELSE LexLess(Tail(a), Tail(b))

\* the keys of a BTreeMap in iteration order
RECURSIVE SortedKeys(_)
SortedKeys(S) ==
    IF S = {} THEN <<>>
    ELSE LET m == CHOOSE x \in S : \A y \in S : x = y \/ LexLess(x, y)
         IN  <<m>> \o SortedKeys(S \ {m})

\* BTreeMap::insert / remove on a map kept as a function
MapInsert(m, k, e) == [x \in DOMAIN m \cup {k} |-> IF x = k THEN e ELSE m[x]]
MapRemove(m, k) == [x \in DOMAIN m \ {k} |-> m[x]]
EmptyMap == [x \in {} |-> <<>>]

(***************************************************************************)
(* Log: the record codec.                                                  *)
(***************************************************************************)
\* u32::to_be_bytes
U32ToBeBytes(n) ==
    << (n \div 16777216) % 256, (n \div 65536) % 256, (n \div 256) % 256, n % 256 >>

\* i32::to_be_bytes (two's complement)
I32ToBeBytes(i) ==
    IF i >= 0 THEN U32ToBeBytes(i)
    ELSE LET m == (i + 2147483647) + 1
         IN  << 128 + (m \div 16777216), (m \div 65536) % 256, (m \div 256) % 256, m % 256 >>

\* u32::from_be_bytes
U32FromBeBytes(b) == b[1] * 16777216 + b[2] * 65536 + b[3] * 256 + b[4]

\* i32::from_be_bytes
I32FromBeBytes(b) ==
    IF b[1] < 128 THEN U32FromBeBytes(b)
    ELSE ((((b[1] - 128) * 16777216 + b[2] * 65536 + b[3] * 256 + b[4]) - 2147483647) - 1)

\* Log::write_entry(key, value): the file after the append, and (offset, len)
write_entry(f, key, value) ==
    LET key_len == Len(key)
        value_len == IF value = None THEN 0 ELSE Len(value[1])
        value_len_or_tomestone == IF value = None THEN -1 ELSE Len(value[1])
        len == KEY_VAL_HEADER_LEN * 2 + key_len + value_len
        offset == Len(f)
    IN  [ file   |-> f \o U32ToBeBytes(key_len) \o I32ToBeBytes(value_len_or_tomestone)
                      \o key \o (IF value = None THEN <<>> ELSE value[1]),
          offset |-> offset,
          len    |-> len ]

\* usize as u32 and usize as i32 on words of WordBits bits
as_u32(n) == n % (2 ^ WordBits)

as_i32(n) ==
    LET m == n % (2 ^ WordBits)
    IN  IF m >= 2 ^ (WordBits - 1) THEN m - 2 ^ WordBits ELSE m

\* the numbers of Log::write_entry for a key of key_len bytes and a value of
\* Some(n) bytes, or None, on words of WordBits bits: the two header fields
\* and the record length; the sum panics on overflow when the build checks
\* overflow and wraps when it does not
write_entry_lengths(key_len, value, overflow_checks) ==
    LET key_len_w == as_u32(key_len)
        value_len == IF value = None THEN 0 ELSE as_u32(value[1])
        value_len_or_tomestone == IF value = None THEN -1 ELSE as_i32(value[1])
        sum == KEY_VAL_HEADER_LEN * 2 + key_len_w + value_len
    IN  [ status |-> IF sum >= 2 ^ WordBits /\ overflow_checks THEN "panic" ELSE "ok",
          key_len |-> key_len_w,
          value_len_or_tomestone |-> value_len_or_tomestone,
          len |-> sum % (2 ^ WordBits) ]

\* Log::read_value(value_pos, value_len): read_exact fails on a short read
read_value(f, value_pos, value_len) ==
    IF value_pos + value_len <= Len(f)
    THEN [ok |-> TRUE, val |-> SubSeq(f, value_pos + 1, value_pos + value_len)]
    ELSE [ok |-> FALSE, val |-> <<>>]

\* read_one with the value taken to start one header field after pos
read_one_one_field(f, pos) ==
    IF pos + KEY_VAL_HEADER_LEN > Len(f) THEN [ok |-> FALSE]
    ELSE IF pos + KEY_VAL_HEADER_LEN * 2 > Len(f) THEN [ok |-> FALSE]
    ELSE LET key_len == U32FromBeBytes(SubSeq(f, pos + 1, pos + 4))
             l == I32FromBeBytes(SubSeq(f, pos + 5, pos + 8))
             value_pos == pos + KEY_VAL_HEADER_LEN + key_len
         IN  IF value_pos > Len(f) THEN [ok |-> FALSE]
             ELSE [ ok |-> TRUE,
                    key |-> SubSeq(f, pos + 9, value_pos),
                    value_pos |-> value_pos,
                    value_len |-> IF l >= 0 THEN Some(l) ELSE None ]

\* one turn of the loop of Log::load_index: the closure read_one at pos
read_one(f, pos) ==
    IF pos + KEY_VAL_HEADER_LEN > Len(f) THEN [ok |-> FALSE]
    ELSE IF pos + KEY_VAL_HEADER_LEN * 2 > Len(f) THEN [ok |-> FALSE]
    ELSE LET key_len == U32FromBeBytes(SubSeq(f, pos + 1, pos + 4))
             l == I32FromBeBytes(SubSeq(f, pos + 5, pos + 8))
             value_pos == pos + KEY_VAL_HEADER_LEN * 2 + key_len
         IN  IF value_pos > Len(f) THEN [ok |-> FALSE]
             ELSE [ ok |-> TRUE,
                    key |-> SubSeq(f, pos + 9, value_pos),
                    value_pos |-> value_pos,
                    value_len |-> IF l >= 0 THEN Some(l) ELSE None ]

\* Log::load_index: the loop from pos with the KeyDir built so far
RECURSIVE load_index_from(_, _, _)
load_index_from(f, pos, kd) ==
    IF ~(pos < Len(f)) THEN [ok |-> TRUE, keydir |-> kd]
    ELSE LET r == read_one(f, pos)
         IN  IF ~r.ok THEN [ok |-> FALSE, keydir |-> EmptyMap]
             ELSE IF r.value_len # None
             THEN load_index_from(f, r.value_pos + r.value_len[1],
                                  MapInsert(kd, r.key, <<r.value_pos, r.value_len[1]>>))
             ELSE load_index_from(f, r.value_pos, MapRemove(kd, r.key))

load_index(f) == load_index_from(f, 0, EmptyMap)

(***************************************************************************)
(* MiniBitcask: point operations.                                          *)
(***************************************************************************)
NoResult == [op |-> "none", key |-> <<>>, status |-> "ok", val |-> None]

\* what MiniBitcask::get(key) returns in the current state
get(key) ==
    IF key \in DOMAIN keydir
    THEN LET r == read_value(file, keydir[key][1], keydir[key][2])
         IN  IF r.ok THEN [status |-> "ok", val |-> Some(r.val)]
             ELSE [status |-> "err", val |-> None]
    ELSE [status |-> "ok", val |-> None]

MiniBitcask_set(key, value) ==
    /\ UNCHANGED mvars
    /\ iter = None
    /\ LET w == write_entry(file, key, Some(value))
           value_len == Len(value)
       IN  /\ file' = w.file
           /\ keydir' = MapInsert(keydir, key, <<(w.offset + w.len) - value_len, value_len>>)
    /\ hist' = Append(hist, <<"set", key, value>>)
    /\ result' = [op |-> "set", key |-> key, status |-> "ok", val |-> None]
    /\ UNCHANGED <<iter, scanCall, yielded>>

\* delete that appends the tombstone and forgets the KeyDir
MiniBitcask_delete_keeps_entry(key) ==
    /\ UNCHANGED mvars
    /\ iter = None
    /\ file' = write_entry(file, key, None).file
    /\ hist' = Append(hist, <<"delete", key, <<>>>>)
    /\ result' = [op |-> "delete", key |-> key, status |-> "ok", val |-> None]
    /\ UNCHANGED <<keydir, iter, scanCall, yielded>>

\* delete that writes no tombstone for a key the KeyDir does not hold
MiniBitcask_delete_skips_missing(key) ==
    /\ UNCHANGED mvars
    /\ iter = None
    /\ file' = IF key \in DOMAIN keydir THEN write_entry(file, key, None).file ELSE file
    /\ keydir' = MapRemove(keydir, key)
    /\ hist' = Append(hist, <<"delete", key, <<>>>>)
    /\ result' = [op |-> "delete", key |-> key, status |-> "ok", val |-> None]
    /\ UNCHANGED <<iter, scanCall, yielded>>

MiniBitcask_delete(key) ==
    /\ UNCHANGED mvars
    /\ iter = None
    /\ file' = write_entry(file, key, None).file
    /\ keydir' = MapRemove(keydir, key)
    /\ hist' = Append(hist, <<"delete", key, <<>>>>)
    /\ result' = [op |-> "delete", key |-> key, status |-> "ok", val |-> None]
    /\ UNCHANGED <<iter, scanCall, yielded>>

MiniBitcask_get(key) ==
    /\ UNCHANGED mvars
    /\ iter = None
    /\ result' = [op |-> "get", key |-> key, status |-> get(key).status, val |-> get(key).val]
    /\ UNCHANGED <<file, keydir, hist, iter, scanCall, yielded>>

\* drop(store); MiniBitcask::new(path): the KeyDir is rebuilt from the log
MiniBitcask_new ==
    /\ UNCHANGED mvars
    /\ iter = None
    /\ LET r == load_index(file)
       IN  IF r.ok
           THEN /\ keydir' = r.keydir
                /\ result' = [op |-> "new", key |-> <<>>, status |-> "ok", val |-> None]
           ELSE /\ result' = [op |-> "new", key |-> <<>>, status |-> "err", val |-> None]
                /\ UNCHANGED keydir
    /\ UNCHANGED <<file, hist, iter, scanCall, yielded>>

\* Log::write_entry, its length arithmetic alone, for a key and a value of
\* the given lengths
Log_write_entry_lengths(key_len, value, overflow_checks) ==
    /\ UNCHANGED mvars
    /\ iter = None
    /\ LET r == write_entry_lengths(key_len, value, overflow_checks)
       IN  result' = [op |-> "write_entry", key |-> <<key_len, value>>,
                      status |-> r.status, val |-> r]
    /\ UNCHANGED <<file, keydir, hist, iter, scanCall, yielded>>

\* the store is dropped and its log file loses its tail: n bytes are left
\* for the next MiniBitcask::new to find
Log_file_cut(n) ==
    /\ UNCHANGED mvars
    /\ iter = None
    /\ n < Len(file)
    /\ file' = SubSeq(file, 1, n)
    /\ result' = [op |-> "cut", key |-> <<>>, status |-> "ok", val |-> None]
    /\ UNCHANGED <<keydir, hist, iter, scanCall, yielded>>

(***************************************************************************)
(* MiniBitcask: scans.  A range bound is <<kind, key>>.                    *)
(***************************************************************************)
Unbounded == <<"Unbounded", <<>>>>
Included(k) == <<"Included", k>>
Excluded(k) == <<"Excluded", k>>
Bounds == {Unbounded} \cup {Included(k) : k \in RangeKeys} \cup {Excluded(k) : k \in RangeKeys}

NoCall == [fn |-> "none", lo |-> Unbounded, hi |-> Unbounded, prefix |-> <<>>]

\* BTreeMap::range panics when start > end, or start == end with both excluded
range_panics(lo, hi) ==
    /\ lo[1] # "Unbounded"
    /\ hi[1] # "Unbounded"
    /\ \/ LexLess(hi[2], lo[2])
       \/ lo[2] = hi[2] /\ lo[1] = "Excluded" /\ hi[1] = "Excluded"

\* in_range with an excluded upper bound taken as included
in_range_closed(k, lo, hi) ==
    /\ \/ lo[1] = "Unbounded"
       \/ lo[1] = "Included" /\ (k = lo[2] \/ LexLess(lo[2], k))
       \/ lo[1] = "Excluded" /\ LexLess(lo[2], k)
    /\ \/ hi[1] = "Unbounded"
       \/ hi[1] # "Unbounded" /\ (k = hi[2] \/ LexLess(k, hi[2]))

\* whether BTreeMap::range(lo, hi) visits key k
in_range(k, lo, hi) ==
    /\ \/ lo[1] = "Unbounded"
       \/ lo[1] = "Included" /\ (k = lo[2] \/ LexLess(lo[2], k))
       \/ lo[1] = "Excluded" /\ LexLess(lo[2], k)
    /\ \/ hi[1] = "Unbounded"
       \/ hi[1] = "Included" /\ (k = hi[2] \/ LexLess(k, hi[2]))
       \/ hi[1] = "Excluded" /\ LexLess(k, hi[2])

\* self.keydir.range(range): the keys the new iterator will visit, in order
keydir_range(lo, hi) ==
    SelectSeq(SortedKeys(DOMAIN keydir), LAMBDA k : in_range(k, lo, hi))

\* the upper bound scan_prefix builds: *last += 1 panics on overflow when the
\* build checks overflow, and wraps to 0 when it does not
bound_prefix(prefix, overflow_checks) ==
    IF prefix = <<>> THEN Some(<<>>)
    ELSE LET n == Len(prefix)
         IN  IF prefix[n] + 1 > 255
             THEN (IF overflow_checks THEN None ELSE Some([prefix EXCEPT ![n] = 0]))
             ELSE Some([prefix EXCEPT ![n] = prefix[n] + 1])

\* MiniBitcask::scan(range)
MiniBitcask_scan(lo, hi) ==
    /\ UNCHANGED mvars
    /\ iter = None
    /\ IF range_panics(lo, hi)
       THEN /\ result' = [op |-> "scan", key |-> <<>>, status |-> "panic", val |-> None]
            /\ scanCall' = [fn |-> "scan", lo |-> lo, hi |-> hi, prefix |-> <<>>]
            /\ UNCHANGED <<iter, yielded>>
       ELSE /\ iter' = Some(keydir_range(lo, hi))
            /\ scanCall' = [fn |-> "scan", lo |-> lo, hi |-> hi, prefix |-> <<>>]
            /\ yielded' = <<>>
            /\ result' = [op |-> "scan", key |-> <<>>, status |-> "ok", val |-> None]
    /\ UNCHANGED <<file, keydir, hist>>

\* MiniBitcask::scan_prefix(prefix)
MiniBitcask_scan_prefix(prefix, overflow_checks) ==
    /\ UNCHANGED mvars
    /\ iter = None
    /\ LET start == Included(prefix)
           bp == bound_prefix(prefix, overflow_checks)
       IN  IF bp = None \/ range_panics(start, Excluded(bp[1]))
           THEN /\ result' = [op |-> "scan_prefix", key |-> prefix, status |-> "panic",
                              val |-> None]
                /\ scanCall' = [fn |-> "scan_prefix", lo |-> start, hi |-> Unbounded,
                                prefix |-> prefix]
                /\ UNCHANGED <<iter, yielded>>
           ELSE /\ iter' = Some(keydir_range(start, Excluded(bp[1])))
                /\ scanCall' = [fn |-> "scan_prefix", lo |-> start, hi |-> Excluded(bp[1]),
                                prefix |-> prefix]
                /\ yielded' = <<>>
                /\ result' = [op |-> "scan_prefix", key |-> prefix, status |-> "ok",
                              val |-> None]
    /\ UNCHANGED <<file, keydir, hist>>

\* ScanIterator::map(item): the key with its value read from the log
ScanIterator_map(key) ==
    LET r == read_value(file, keydir[key][1], keydir[key][2])
    IN  [status |-> IF r.ok THEN "ok" ELSE "err", val |-> r.val]

\* the step both ends share: item is the key taken from inner, rest what is left
ScanIterator_yield(op, item, rest) ==
    /\ iter' = Some(rest)
    /\ LET m == ScanIterator_map(item)
       IN  /\ result' = [op |-> op, key |-> item, status |-> m.status, val |-> Some(m.val)]
           /\ yielded' = Append(yielded, [op |-> op, key |-> item, status |-> m.status,
                                          val |-> m.val])
    /\ UNCHANGED <<file, keydir, hist, scanCall>>

\* the step both ends share when inner is exhausted
ScanIterator_exhausted(op) ==
    /\ result' = [op |-> op, key |-> <<>>, status |-> "ok", val |-> None]
    /\ UNCHANGED <<file, keydir, hist, iter, scanCall, yielded>>

\* ScanIterator::next
ScanIterator_next ==
    /\ UNCHANGED mvars
    /\ iter # None
    /\ IF iter[1] = <<>>
       THEN ScanIterator_exhausted("next")
       ELSE ScanIterator_yield("next", Head(iter[1]), Tail(iter[1]))

\* ScanIterator::next_back
ScanIterator_next_back ==
    /\ UNCHANGED mvars
    /\ iter # None
    /\ IF iter[1] = <<>>
       THEN ScanIterator_exhausted("next_back")
       ELSE ScanIterator_yield("next_back", iter[1][Len(iter[1])],
                               SubSeq(iter[1], 1, Len(iter[1]) - 1))

\* drop(iter): the borrow of the store ends
ScanIterator_drop ==
    /\ UNCHANGED mvars
    /\ iter # None
    /\ iter' = None
    /\ scanCall' = NoCall
    /\ yielded' = <<>>
    /\ result' = [op |-> "drop", key |-> <<>>, status |-> "ok", val |-> None]
    /\ UNCHANGED <<file, keydir, hist>>

(***************************************************************************)
(* MVCC: versioned keys.  bincode writes a Vec<u8> as its length (u64,     *)
(* little-endian) and its bytes, and a u64 as eight little-endian bytes.   *)
(* Every number of the model is below 2^31, so the upper four bytes are 0. *)
(***************************************************************************)
\* u64 in bincode's fixed-width little-endian form
U64ToLeBytes(n) ==
    << n % 256, (n \div 256) % 256, (n \div 65536) % 256, (n \div 16777216) % 256,
       0, 0, 0, 0 >>

U64FromLeBytes(b) == b[1] + b[2] * 256 + b[3] * 65536 + b[4] * 16777216

\* Key::encode
encode(raw_key, version) ==
    U64ToLeBytes(Len(raw_key)) \o raw_key \o U64ToLeBytes(version)

\* decode_key
decode_key(b) ==
    LET n == U64FromLeBytes(SubSeq(b, 1, 8))
    IN  [ raw_key |-> SubSeq(b, 9, 8 + n),
          version |-> U64FromLeBytes(SubSeq(b, 9 + n, 16 + n)) ]

\* kvengine.iter().rev(): the encoded keys of m from the greatest down
RECURSIVE Reverse(_)
Reverse(q) == IF q = <<>> THEN <<>> ELSE Reverse(Tail(q)) \o <<Head(q)>>

iter_rev(m) == Reverse(SortedKeys(DOMAIN m))

(***************************************************************************)
(* MVCC: transactions.  Thread t runs one transaction after another.       *)
(***************************************************************************)
NoTxn == [ state |-> "none", version |-> 0, active_xid |-> {}, op |-> "none",
           key |-> <<>>, value |-> None, committed_at_begin |-> {}, ended |-> FALSE ]

\* the caller's Transaction after commit or rollback has returned: dropped,
\* or kept as it is (commit and rollback take &self and leave it alone)
Ended(tx, kept) ==
    IF kept THEN [tx EXCEPT !.state = "active", !.ended = TRUE] ELSE NoTxn

NoLast == [thread |-> 0, op |-> "none", key |-> <<>>, status |-> "ok", val |-> None,
           ver |-> 0]

Returned(t, op, key, status, val, ver) ==
    [thread |-> t, op |-> op, key |-> key, status |-> status, val |-> val, ver |-> ver]

\* is_visible without the check of the snapshot
is_visible_by_version(tx, version) == version <= tx.version

\* Transaction::is_visible
is_visible(tx, version) ==
    IF version \in tx.active_xid THEN FALSE ELSE version <= tx.version

\* the loop of Transaction::write: the first record met, from the greatest
\* encoded key down, with this raw key is not visible
RECURSIVE write_conflict(_, _, _)
write_conflict(tx, key, desc) ==
    IF desc = <<>> THEN FALSE
    ELSE LET key_version == decode_key(Head(desc))
         IN  IF key_version.raw_key = key
             THEN ~is_visible(tx, key_version.version)
             ELSE write_conflict(tx, key, Tail(desc))

\* the loop of Transaction::get: the first record, from the greatest encoded
\* key down, with this raw key and a visible version
RECURSIVE get_first(_, _, _)
get_first(tx, key, desc) ==
    IF desc = <<>> THEN None
    ELSE LET key_version == decode_key(Head(desc))
         IN  IF key_version.raw_key = key /\ is_visible(tx, key_version.version)
             THEN Some(Head(desc))
             ELSE get_first(tx, key, Tail(desc))

\* what Transaction::get(key) returns on backing m, with the version found
tx_get(tx, key, m) ==
    LET f == get_first(tx, key, iter_rev(m))
    IN  IF f = None THEN [val |-> None, ver |-> 0]
        ELSE [val |-> m[f[1]], ver |-> decode_key(f[1]).version]

\* the first loop of Transaction::print_all: records after the encoded keys
\* asc, in ascending order, have been visited
RECURSIVE print_all_records(_, _, _, _)
print_all_records(tx, m, asc, records) ==
    IF asc = <<>> THEN records
    ELSE LET key_version == decode_key(Head(asc))
         IN  IF is_visible(tx, key_version.version)
             THEN print_all_records(tx, m, Tail(asc),
                                    MapInsert(records, key_version.raw_key, m[Head(asc)]))
             ELSE print_all_records(tx, m, Tail(asc), records)

\* Transaction::print_all on backing m: the pairs <<k, v>> it prints, in order
print_all(tx, m) ==
    LET records == print_all_records(tx, m, SortedKeys(DOMAIN m), EmptyMap)
        shown == SelectSeq(SortedKeys(DOMAIN records), LAMBDA k : records[k] # None)
    IN  [i \in 1..Len(shown) |-> <<shown[i], records[shown[i]][1]>>]

\* a run whose counter starts at first begins at most MaxTxns transactions
VersionsLeft(first) == VERSION < first + MaxTxns

\* acquire_next_version that reads the counter and leaves it where it is
Transaction_begin_version_load(t) ==
    /\ UNCHANGED bvars
    /\ txn[t].state = "none" \/ (txn[t].state = "active" /\ txn[t].ended)
    /\ txn' = [txn EXCEPT ![t] = [NoTxn EXCEPT !.state = "begin", !.version = VERSION]]
    /\ UNCHANGED VERSION
    /\ UNCHANGED <<ACTIVE_TXN, kv, kvLock, regLock, kvPoisoned, regPoisoned, committed, last>>

\* acquire_next_version, the first statement of Transaction::begin
Transaction_begin_version(t) ==
    /\ UNCHANGED bvars
    /\ txn[t].state = "none" \/ (txn[t].state = "active" /\ txn[t].ended)
    /\ txn' = [txn EXCEPT ![t] = [NoTxn EXCEPT !.state = "begin", !.version = VERSION]]
    /\ VERSION' = VERSION + 1
    /\ UNCHANGED <<ACTIVE_TXN, kv, kvLock, regLock, kvPoisoned, regPoisoned, committed, last>>

\* the rest of Transaction::begin, under the mutex of ACTIVE_TXN
Transaction_begin_register(t) ==
    /\ UNCHANGED bvars
    /\ txn[t].state = "begin"
    /\ regLock = 0
    /\ IF regPoisoned
       THEN /\ txn' = [txn EXCEPT ![t] = NoTxn]
            /\ last' = Returned(t, "begin", <<>>, "panic", None, txn[t].version)
            /\ UNCHANGED ACTIVE_TXN
       ELSE /\ txn' = [txn EXCEPT ![t].state = "active",
                                  ![t].active_xid = DOMAIN ACTIVE_TXN,
                                  ![t].committed_at_begin = committed]
            /\ ACTIVE_TXN' = MapInsert(ACTIVE_TXN, txn[t].version, <<>>)
            /\ last' = Returned(t, "begin", <<>>, "ok", None, txn[t].version)
    /\ UNCHANGED <<VERSION, kv, kvLock, regLock, kvPoisoned, regPoisoned, committed>>

\* Transaction::write up to the end of the conflict check; the mutex of kv
\* stays held.  A panic while the guard is alive poisons the mutex.
Transaction_write_check(t, op, key, value) ==
    /\ UNCHANGED bvars
    /\ txn[t].state = "active"
    /\ txn[t].version \in DOMAIN ACTIVE_TXN => Len(ACTIVE_TXN[txn[t].version]) < MaxWrites
    /\ kvLock = 0
    /\ IF kvPoisoned
       THEN /\ last' = Returned(t, op, key, "panic", None, 0)
            /\ UNCHANGED <<txn, kvLock, kvPoisoned>>
       ELSE IF write_conflict(txn[t], key, iter_rev(kv))
       THEN /\ last' = Returned(t, op, key, "conflict", None, 0)
            /\ kvPoisoned' = TRUE
            /\ UNCHANGED <<txn, kvLock>>
       ELSE /\ txn' = [txn EXCEPT ![t].state = "write", ![t].op = op,
                                  ![t].key = key, ![t].value = value]
            /\ kvLock' = t
            /\ UNCHANGED <<last, kvPoisoned>>
    /\ UNCHANGED <<VERSION, ACTIVE_TXN, kv, regLock, regPoisoned, committed>>

Transaction_set(t, key, value) == Transaction_write_check(t, "set", key, Some(value))

Transaction_delete(t, key) == Transaction_write_check(t, "delete", key, None)

\* the rest of Transaction::write: the write-set and the record, with both
\* mutexes held
Transaction_write_insert(t) ==
    /\ UNCHANGED bvars
    /\ txn[t].state = "write"
    /\ regLock = 0
    /\ IF regPoisoned
       THEN /\ last' = Returned(t, txn[t].op, txn[t].key, "panic", None, 0)
            /\ kvPoisoned' = TRUE
            /\ UNCHANGED <<ACTIVE_TXN, kv>>
       ELSE /\ ACTIVE_TXN' =
                 IF txn[t].version \in DOMAIN ACTIVE_TXN
                 THEN [ACTIVE_TXN EXCEPT ![txn[t].version] = Append(@, txn[t].key)]
                 ELSE MapInsert(ACTIVE_TXN, txn[t].version, <<txn[t].key>>)
            /\ kv' = MapInsert(kv, encode(txn[t].key, txn[t].version), txn[t].value)
            /\ last' = Returned(t, txn[t].op, txn[t].key, "ok", None, txn[t].version)
            /\ UNCHANGED kvPoisoned
    /\ kvLock' = 0
    /\ txn' = [txn EXCEPT ![t].state = "active", ![t].op = "none", ![t].key = <<>>,
                          ![t].value = None]
    /\ UNCHANGED <<VERSION, regLock, regPoisoned, committed>>

\* Transaction::get
Transaction_get(t, key) ==
    /\ UNCHANGED bvars
    /\ txn[t].state = "active"
    /\ kvLock = 0
    /\ IF kvPoisoned
       THEN last' = Returned(t, "get", key, "panic", None, 0)
       ELSE LET r == tx_get(txn[t], key, kv)
            IN  last' = Returned(t, "get", key, "ok", r.val, r.ver)
    /\ UNCHANGED <<VERSION, ACTIVE_TXN, kv, kvLock, regLock, kvPoisoned, regPoisoned, txn,
                   committed>>

\* Transaction::print_all
Transaction_print_all(t) ==
    /\ UNCHANGED bvars
    /\ txn[t].state = "active"
    /\ kvLock = 0
    /\ IF kvPoisoned
       THEN last' = Returned(t, "print_all", <<>>, "panic", None, 0)
       ELSE last' = Returned(t, "print_all", <<>>, "ok", print_all(txn[t], kv),
                             txn[t].version)
    /\ UNCHANGED <<VERSION, ACTIVE_TXN, kv, kvLock, regLock, kvPoisoned, regPoisoned, txn,
                   committed>>

\* Transaction::commit
Transaction_commit_then(t, kept) ==
    /\ UNCHANGED bvars
    /\ txn[t].state = "active"
    /\ regLock = 0
    /\ IF regPoisoned
       THEN /\ last' = Returned(t, "commit", <<>>, "panic", None, txn[t].version)
            /\ UNCHANGED <<ACTIVE_TXN, txn, committed>>
       ELSE /\ ACTIVE_TXN' = MapRemove(ACTIVE_TXN, txn[t].version)
            /\ committed' = committed \cup {txn[t].version}
            /\ txn' = [txn EXCEPT ![t] = Ended(txn[t], kept)]
            /\ last' = Returned(t, "commit", <<>>, "ok", None, txn[t].version)
    /\ UNCHANGED <<VERSION, kv, kvLock, regLock, kvPoisoned, regPoisoned>>

\* tx.commit() as the last use of tx
Transaction_commit(t) == Transaction_commit_then(t, FALSE)

\* Transaction::rollback up to the lookup of the write-set; the mutex of
\* ACTIVE_TXN stays held when there is one
Transaction_rollback_lookup(t) ==
    /\ UNCHANGED bvars
    /\ txn[t].state = "active"
    /\ regLock = 0
    /\ IF regPoisoned
       THEN /\ last' = Returned(t, "rollback", <<>>, "panic", None, txn[t].version)
            /\ UNCHANGED <<ACTIVE_TXN, txn, regLock>>
       ELSE IF txn[t].version \in DOMAIN ACTIVE_TXN
       THEN /\ regLock' = t
            /\ txn' = [txn EXCEPT ![t].state = "rollback"]
            /\ UNCHANGED <<ACTIVE_TXN, last>>
       ELSE /\ ACTIVE_TXN' = MapRemove(ACTIVE_TXN, txn[t].version)
            /\ txn' = [txn EXCEPT ![t] = Ended(txn[t], txn[t].ended)]
            /\ last' = Returned(t, "rollback", <<>>, "ok", None, txn[t].version)
            /\ UNCHANGED regLock
    /\ UNCHANGED <<VERSION, kv, kvLock, kvPoisoned, regPoisoned, committed>>

\* the loop of Transaction::rollback: remove (k, version) for each k of the
\* write-set; the assertion stops it at the first removal that finds nothing
RECURSIVE rollback_remove(_, _, _)
rollback_remove(m, keys, version) ==
    IF keys = <<>> THEN [ok |-> TRUE, kv |-> m]
    ELSE LET enc_key == encode(Head(keys), version)
         IN  IF enc_key \in DOMAIN m
             THEN rollback_remove(MapRemove(m, enc_key), Tail(keys), version)
             ELSE [ok |-> FALSE, kv |-> m]

\* the rest of Transaction::rollback, with both mutexes held
Transaction_rollback_remove_then(t, kept) ==
    /\ UNCHANGED bvars
    /\ txn[t].state = "rollback"
    /\ kvLock = 0
    /\ IF kvPoisoned
       THEN /\ last' = Returned(t, "rollback", <<>>, "panic", None, txn[t].version)
            /\ regPoisoned' = TRUE
            /\ txn' = [txn EXCEPT ![t].state = "active"]
            /\ UNCHANGED <<ACTIVE_TXN, kv, kvPoisoned>>
       ELSE LET r == rollback_remove(kv, ACTIVE_TXN[txn[t].version], txn[t].version)
            IN  /\ kv' = r.kv
                /\ IF r.ok
                   THEN /\ ACTIVE_TXN' = MapRemove(ACTIVE_TXN, txn[t].version)
                        /\ txn' = [txn EXCEPT ![t] = Ended(txn[t], kept)]
                        /\ last' = Returned(t, "rollback", <<>>, "ok", None,
                                            txn[t].version)
                        /\ UNCHANGED <<kvPoisoned, regPoisoned>>
                   ELSE /\ last' = Returned(t, "rollback", <<>>, "assert", None,
                                            txn[t].version)
                        /\ kvPoisoned' = TRUE
                        /\ regPoisoned' = TRUE
                        /\ txn' = [txn EXCEPT ![t].state = "active"]
                        /\ UNCHANGED ACTIVE_TXN
    /\ regLock' = 0
    /\ UNCHANGED <<VERSION, kvLock, committed>>

\* tx.rollback() as the last use of tx
Transaction_rollback_remove(t) == Transaction_rollback_remove_then(t, FALSE)

(***************************************************************************)
(* Specifications of MiniBitcask.                                          *)
(***************************************************************************)
\* MiniBitcask::new on a path that holds no log yet
BitcaskInit ==
    /\ file = <<>>
    /\ keydir = load_index(<<>>).keydir
    /\ hist = <<>>
    /\ iter = None
    /\ scanCall = NoCall
    /\ yielded = <<>>
    /\ result = NoResult

\* the statics as the program starts, and MVCC::new(KVEngine::new())
MvccInit ==
    /\ VERSION = FirstVersion
    /\ ACTIVE_TXN = EmptyMap
    /\ kv = EmptyMap
    /\ kvLock = 0
    /\ regLock = 0
    /\ kvPoisoned = FALSE
    /\ regPoisoned = FALSE
    /\ txn = [t \in Threads |-> NoTxn]
    /\ committed = {}
    /\ last = NoLast

Init == BitcaskInit /\ MvccInit

\* the same program after 254 transactions that wrote nothing: the counter
\* has advanced, the registry and the backing are empty
LateInit ==
    /\ BitcaskInit
    /\ VERSION = LateVersion
    /\ ACTIVE_TXN = EmptyMap
    /\ kv = EmptyMap
    /\ kvLock = 0
    /\ regLock = 0
    /\ kvPoisoned = FALSE
    /\ regPoisoned = FALSE
    /\ txn = [t \in Threads |-> NoTxn]
    /\ committed = {}
    /\ last = NoLast

\* main after tx0 has set a=a1 .. e=e1 and committed
MainInit ==
    /\ BitcaskInit
    /\ VERSION = FirstVersion + 1
    /\ ACTIVE_TXN = EmptyMap
    /\ kv = [e \in {encode(k, FirstVersion) : k \in MainKeys} |->
                Some(MainValue(decode_key(e).raw_key, 1))]
    /\ kvLock = 0
    /\ regLock = 0
    /\ kvPoisoned = FALSE
    /\ regPoisoned = FALSE
    /\ txn = [t \in Threads |-> NoTxn]
    /\ committed = {FirstVersion}
    /\ last = NoLast

(***************************************************************************)
(* Specifications of the MVCC layer: threads call begin, set, delete, get, *)
(* commit and rollback, each transaction between its begin and its one     *)
(* commit or rollback; a caller that saw a call panic may call again.      *)
(***************************************************************************)
Next ==
    \/ \E t \in Threads : VersionsLeft(FirstVersion) /\ Transaction_begin_version(t)
    \/ \E t \in Threads : Transaction_begin_register(t)
    \/ \E t \in Threads, k \in RawKeys, v \in RawValues : Transaction_set(t, k, v)
    \/ \E t \in Threads, k \in RawKeys : Transaction_delete(t, k)
    \/ \E t \in Threads : Transaction_write_insert(t)
    \/ \E t \in Threads, k \in RawKeys : Transaction_get(t, k)
    \/ \E t \in Threads : Transaction_commit(t)
    \/ \E t \in Threads : Transaction_rollback_lookup(t)
    \/ \E t \in Threads : Transaction_rollback_remove(t)

Spec == Init /\ [][Next]_vars

\* one thread that runs its transactions one after another, from LateInit
LateNext ==
    \/ VersionsLeft(LateVersion) /\ Transaction_begin_version(1)
    \/ Transaction_begin_register(1)
    \/ \E k \in RawKeys, v \in RawValues : Transaction_set(1, k, v)
    \/ \E k \in RawKeys : Transaction_delete(1, k)
    \/ Transaction_write_insert(1)
    \/ \E k \in RawKeys : Transaction_get(1, k)
    \/ Transaction_print_all(1)
    \/ Transaction_commit(1)
    \/ Transaction_rollback_lookup(1)
    \/ Transaction_rollback_remove(1)

LateSpec == LateInit /\ [][LateNext]_vars

\* one thread whose caller may keep a Transaction after its commit or
\* rollback and go on calling it
MisuseNext ==
    \/ VersionsLeft(FirstVersion) /\ Transaction_begin_version(1)
    \/ Transaction_begin_register(1)
    \/ \E k \in RawKeys, v \in RawValues : Transaction_set(1, k, v)
    \/ \E k \in RawKeys : Transaction_delete(1, k)
    \/ Transaction_write_insert(1)
    \/ \E k \in RawKeys : Transaction_get(1, k)
    \/ \E kept \in BOOLEAN : Transaction_commit_then(1, kept)
    \/ Transaction_rollback_lookup(1)
    \/ \E kept \in BOOLEAN : Transaction_rollback_remove_then(1, kept)

MisuseSpec == Init /\ [][MisuseNext]_vars

\* no Transaction other than that of t is inside a call
Quiet(t) == \A u \in Threads \ {t} : txn[u].state \in {"none", "active"}

\* main: one thread that holds up to two Transactions at a time and makes
\* the calls of main on them, one call after another
MainNext ==
    \/ \E t \in Threads :
          /\ Quiet(t)
          /\ VERSION < FirstVersion + 1 + MainTxns
          /\ Transaction_begin_version(t)
    \/ \E t \in Threads : Transaction_begin_register(t)
    \/ \E t \in Threads, k \in MainSetKeys :
          Quiet(t) /\ Transaction_set(t, k, MainValue(k, 2))
    \/ \E t \in Threads, k \in MainDeleteKeys : Quiet(t) /\ Transaction_delete(t, k)
    \/ \E t \in Threads : Transaction_write_insert(t)
    \/ \E t \in Threads : Quiet(t) /\ Transaction_print_all(t)
    \/ \E t \in Threads : Quiet(t) /\ Transaction_commit(t)

MainSpec == MainInit /\ [][MainNext]_vars

\* point operations and reopening
BitcaskNext ==
    \/ \E k \in Keys, v \in Values : Len(hist) < MaxOps /\ MiniBitcask_set(k, v)
    \/ \E k \in Keys : Len(hist) < MaxOps /\ MiniBitcask_delete(k)
    \/ \E k \in Keys : MiniBitcask_get(k)
    \/ MiniBitcask_new

BitcaskSpec == Init /\ [][BitcaskNext]_vars

\* the bytes the calls of h have appended, and the offsets at which one of
\* their records ends
RECURSIVE WrittenLen(_)
WrittenLen(h) ==
    IF h = <<>> THEN 0
    ELSE WrittenLen(SubSeq(h, 1, Len(h) - 1))
           + KEY_VAL_HEADER_LEN * 2 + Len(h[Len(h)][2]) + Len(h[Len(h)][3])

RecordEnds(h) == {WrittenLen(SubSeq(h, 1, i)) : i \in 0..Len(h)}

\* a log written by set and delete, cut once at any byte, and reopened
TruncNext ==
    \/ \E k \in Keys, v \in Values :
          Len(hist) < MaxLogRecords /\ Len(file) = WrittenLen(hist) /\ MiniBitcask_set(k, v)
    \/ \E k \in Keys :
          Len(hist) < MaxLogRecords /\ Len(file) = WrittenLen(hist) /\ MiniBitcask_delete(k)
    \/ \E n \in 0..Len(file) : Len(file) = WrittenLen(hist) /\ Log_file_cut(n)
    \/ MiniBitcask_new

TruncSpec == Init /\ [][TruncNext]_vars

\* write_entry called for the lengths of the keys of Keys and every value
\* length that a word holds, by set (a value) and by delete (no value)
HeaderNext ==
    \/ \E k \in Keys, vl \in 0..(2 ^ WordBits - 1), oc \in BOOLEAN :
          Log_write_entry_lengths(Len(k), Some(vl), oc)
    \/ \E k \in Keys, oc \in BOOLEAN : Log_write_entry_lengths(Len(k), None, oc)

HeaderSpec == Init /\ [][HeaderNext]_vars

\* scans and point reads over a store built by set and delete
ScanNext ==
    \/ \E k \in Keys, v \in Values : Len(hist) < MaxScanOps /\ MiniBitcask_set(k, v)
    \/ \E k \in Keys : Len(hist) < MaxScanOps /\ MiniBitcask_delete(k)
    \/ \E k \in Keys : MiniBitcask_get(k)
    \/ \E lo \in Bounds, hi \in Bounds : MiniBitcask_scan(lo, hi)
    \/ \E p \in Prefixes, oc \in BOOLEAN : MiniBitcask_scan_prefix(p, oc)
    \/ ScanIterator_next
    \/ ScanIterator_next_back
    \/ ScanIterator_drop

ScanSpec == Init /\ [][ScanNext]_vars

(***************************************************************************)
(* Properties of MiniBitcask.                                              *)
(***************************************************************************)
\* the last call of h on key k, if any
LastOpOn(h, k) ==
    LET idx == {i \in 1..Len(h) : h[i][2] = k}
    IN  IF idx = {} THEN None
        ELSE Some(h[CHOOSE i \in idx : \A j \in idx : j <= i])

\* the last-writer-wins projection of h at k: the payload of the last set
Projection(h, k) ==
    LET l == LastOpOn(h, k)
    IN  IF l # None /\ l[1][1] = "set" THEN Some(l[1][3]) ELSE None

LiveKeys == {k \in Keys : Projection(hist, k) # None}

\* C1: after any sequence of set and delete, the KeyDir holds k exactly when
\* the last call on k was a set, and get(k) returns the payload of that set,
\* None otherwise.
C1_LastWriterWins ==
    /\ DOMAIN keydir = LiveKeys
    /\ \A k \in Keys : get(k) = [status |-> "ok", val |-> Projection(hist, k)]
    /\ result.op = "get" =>
          result.status = "ok" /\ result.val = Projection(hist, result.key)

\* set, delete, set of another payload on one key, then get of that key
C1_Witness ==
    /\ Len(hist) = 3
    /\ hist[1][1] = "set"
    /\ hist[2] = <<"delete", hist[1][2], <<>>>>
    /\ hist[3][1] = "set" /\ hist[3][2] = hist[1][2] /\ hist[3][3] # hist[1][3]
    /\ result.op = "get" /\ result.key = hist[1][2] /\ result.val = Some(hist[3][3])

\* C2: load_index over the log written by set and delete, from offset 0,
\* yields the KeyDir that set and delete kept in memory, and each entry's
\* bytes in the log are the payload of the last set of its key.
C2_ReopenEquivalence ==
    /\ load_index(file) = [ok |-> TRUE, keydir |-> keydir]
    /\ \A k \in DOMAIN keydir :
          /\ keydir[k][1] + keydir[k][2] <= Len(file)
          /\ Some(SubSeq(file, keydir[k][1] + 1, keydir[k][1] + keydir[k][2]))
                = Projection(hist, k)

\* a store reopened on a log of three records, one of them a tombstone that
\* removed a key, another a live key
C2_Witness ==
    /\ result.op = "new"
    /\ Len(hist) = 3
    /\ hist[1][1] = "set"
    /\ hist[2][1] = "set" /\ hist[2][2] # hist[1][2]
    /\ hist[3] = <<"delete", hist[1][2], <<>>>>
    /\ DOMAIN keydir = {hist[2][2]}

\* key k lies inside the bounds lo and hi
Within(k, lo, hi) ==
    /\ lo[1] = "Included" => ~LexLess(k, lo[2])
    /\ lo[1] = "Excluded" => LexLess(lo[2], k)
    /\ hi[1] = "Included" => ~LexLess(hi[2], k)
    /\ hi[1] = "Excluded" => LexLess(k, hi[2])

\* ranges BTreeMap::range refuses: the start after the end, or both bounds
\* excluding the same key
Refused(lo, hi) ==
    /\ lo[1] # "Unbounded" /\ hi[1] # "Unbounded"
    /\ LexLess(hi[2], lo[2]) \/ (lo[2] = hi[2] /\ lo[1] = "Excluded" /\ hi[1] = "Excluded")

YieldedKeys(n) == {yielded[i].key : i \in 1..n}

\* what the live iterator has returned and still holds, against the set want
\* of keys it has to cover: every item is a key of want with its current
\* value, no key comes twice, next returns the least key not yet returned and
\* next_back the greatest, and once an end has returned None the keys
\* returned are all of want
IteratorCovers(want) ==
    /\ \A i \in 1..Len(yielded) :
          /\ yielded[i].key \in want
          /\ yielded[i].status = "ok"
          /\ Some(yielded[i].val) = Projection(hist, yielded[i].key)
          /\ yielded[i].key \notin YieldedKeys(i - 1)
          /\ \A k \in want \ YieldedKeys(i) :
                IF yielded[i].op = "next" THEN LexLess(yielded[i].key, k)
                ELSE LexLess(k, yielded[i].key)
    /\ (result.op \in {"next", "next_back"} /\ result.val = None) =>
          YieldedKeys(Len(yielded)) = want

\* C9 as amended: for every range that BTreeMap::range accepts, scan yields
\* exactly the live keys inside the bounds, each with its current value,
\* ascending from next, descending from next_back, each key once over any
\* interleaving of the two; for the other ranges scan panics.
C9_ScanOrderCoverage ==
    scanCall.fn = "scan" =>
        IF Refused(scanCall.lo, scanCall.hi)
        THEN iter = None
        ELSE (result.op = "scan" => result.status = "ok" /\ iter # None)
             /\ (iter # None =>
                   IteratorCovers({k \in LiveKeys : Within(k, scanCall.lo, scanCall.hi)}))

\* an iterator over two keys, emptied by one next_back and one next, that
\* then returned None
C9_Witness ==
    /\ scanCall.fn = "scan"
    /\ scanCall.lo[1] = "Excluded" /\ scanCall.hi[1] = "Included"
    /\ Len(yielded) = 2
    /\ yielded[1].op = "next_back" /\ yielded[2].op = "next"
    /\ result.op = "next" /\ result.val = None
    /\ Cardinality(LiveKeys) = 2

\* C9 as stated: scan returns such an iterator for every range
C9_ScanEveryRange ==
    scanCall.fn = "scan" =>
        /\ iter # None \/ result.op # "scan"
        /\ result.op = "scan" => result.status = "ok"
        /\ iter # None =>
              IteratorCovers({k \in LiveKeys : Within(k, scanCall.lo, scanCall.hi)})

StartsWith(k, p) == Len(k) >= Len(p) /\ SubSeq(k, 1, Len(p)) = p

\* C10: for every non-empty prefix p, a final byte of 0xFF included,
\* scan_prefix(p) returns an iterator that yields, in ascending order,
\* exactly the live keys that start with p.
C10_PrefixScan ==
    (scanCall.fn = "scan_prefix" /\ scanCall.prefix # <<>>) =>
        /\ result.op = "scan_prefix" => result.status = "ok" /\ iter # None
        /\ iter # None =>
              IteratorCovers({k \in LiveKeys : StartsWith(k, scanCall.prefix)})

\* C11: scan_prefix with the empty prefix is a full scan: its iterator
\* yields every live key of the store, in ascending order, each exactly once.
C11_EmptyPrefixScan ==
    (scanCall.fn = "scan_prefix" /\ scanCall.prefix = <<>>) =>
        /\ result.op = "scan_prefix" => result.status = "ok" /\ iter # None
        /\ iter # None => IteratorCovers(LiveKeys)

\* C15: load_index returns an error for every log cut strictly inside a
\* record, whether inside the header, the key bytes or the value bytes; so
\* every entry (off, len) of a KeyDir it returns has off + len <= file length.
C15_TruncatedRejected ==
    result.op = "new" =>
        /\ Len(file) \notin RecordEnds(hist) => result.status = "err"
        /\ result.status = "ok" =>
              \A k \in DOMAIN keydir : keydir[k][1] + keydir[k][2] <= Len(file)

\* C23: every set and every delete, a delete of a key the KeyDir does not
\* hold included, appends one record of 8 + KL + max(VL, 0) bytes at the end
\* of the log and leaves the earlier bytes as they were, so the offsets of
\* the records grow strictly; get and the scans change neither the log nor
\* the KeyDir.
C23_AppendOnly ==
    [][IF hist' # hist
       THEN LET call == hist'[Len(hist')]
                record == U32ToBeBytes(Len(call[2]))
                            \o I32ToBeBytes(IF call[1] = "set" THEN Len(call[3]) ELSE -1)
                            \o call[2] \o call[3]
            IN  /\ hist' = Append(hist, call)
                /\ Len(record) = KEY_VAL_HEADER_LEN * 2 + Len(call[2]) + Len(call[3])
                /\ file' = file \o record
                /\ Len(file') > Len(file)
       ELSE /\ file' = file
            /\ keydir' = keydir]_vars

\* a log of two records, the first the tombstone of a key the store never
\* held, walked by a scan that has returned an item
C23_Witness ==
    /\ Len(hist) = 2
    /\ hist[1][1] = "delete" /\ hist[2][1] = "set"
    /\ Len(file) = WrittenLen(hist)
    /\ result.op = "next" /\ result.val # None
    /\ scanCall.fn = "scan"

\* C24: for every set, whatever length of value a word holds, lengths of
\* half the word range and more included, write_entry writes a VL that is
\* not negative and is the length of the value, and returns the record
\* length 8 + KL + VL; a negative VL is written by delete alone.
C24_ValueLengthHeader ==
    result.op = "write_entry" =>
        LET key_len == result.key[1]
            value == result.key[2]
            r == result.val
        IN  /\ value # None =>
                  /\ result.status = "ok"
                  /\ r.value_len_or_tomestone >= 0
                  /\ r.value_len_or_tomestone = value[1]
                  /\ r.len = KEY_VAL_HEADER_LEN * 2 + key_len + value[1]
            /\ r.value_len_or_tomestone < 0 => value = None

(***************************************************************************)
(* Properties of the MVCC layer.                                           *)
(***************************************************************************)
\* thread t is inside a transaction: begin has returned, commit or rollback
\* has not
InTxn(t) == txn[t].state \in {"active", "write", "rollback"} /\ ~txn[t].ended

\* the versions under which the backing holds a record of raw key k
VersionsOf(k) ==
    {decode_key(e).version : e \in {x \in DOMAIN kv : decode_key(x).raw_key = k}}

\* the keys transaction tx has written
WrittenBy(tx) ==
    IF tx.version \in DOMAIN ACTIVE_TXN
    THEN {ACTIVE_TXN[tx.version][i] : i \in 1..Len(ACTIVE_TXN[tx.version])}
    ELSE {}

Greatest(S) == CHOOSE v \in S : \A w \in S : w <= v

\* C3: a get by transaction T never returns a value or tombstone written by
\* another transaction that had not committed when T began: the record it
\* returns is T's own, or has a version <= T's and was committed when T's
\* begin returned.
C3_SnapshotIsolation ==
    (last.op = "get" /\ last.status = "ok" /\ last.ver # 0) =>
        \/ last.ver = txn[last.thread].version
        \/ /\ last.ver <= txn[last.thread].version
           /\ last.ver \in txn[last.thread].committed_at_begin

\* C4: when two transactions that are active at the same time write one key,
\* the second write fails with a conflict; so beside a record of an active
\* transaction the backing holds, for the same raw key, only records of
\* transactions that had committed when it began.
C4_WriteConflict ==
    /\ (last.op \in {"set", "delete"} /\ last.status = "ok") =>
          \A u \in Threads \ {last.thread} :
              InTxn(u) => txn[u].version \notin VersionsOf(last.key)
    /\ \A t \in Threads, k \in RawKeys :
          (InTxn(t) /\ txn[t].version \in VersionsOf(k)) =>
              VersionsOf(k) \ {txn[t].version} \subseteq txn[t].committed_at_begin

\* the record the read rule selects for transaction tx and key k: the one of
\* the greatest version v with v <= tx.version and v not in tx.active_xid
ReadRule(tx, k) ==
    LET vis == {v \in VersionsOf(k) : v <= tx.version /\ v \notin tx.active_xid}
    IN  IF vis = {} THEN [val |-> None, ver |-> 0]
        ELSE [val |-> kv[encode(k, Greatest(vis))], ver |-> Greatest(vis)]

\* C5: T.get(k) returns the value (or absence, for a tombstone) of the record
\* for k with the greatest version v such that v <= v_T and v is not in A_T,
\* and None when there is no such record.
C5_ReadRule ==
    (last.op = "get" /\ last.status = "ok") =>
        last.val = ReadRule(txn[last.thread], last.key).val

\* C6: for an active transaction T and a key k that T never writes, get(k)
\* returns the same result whenever T calls it: no step changes what T.get(k)
\* returns.
C6_RepeatableRead ==
    [][\A t \in Threads, k \in RawKeys :
          ( /\ InTxn(t)
            /\ txn'[t].version = txn[t].version
            /\ txn'[t].state \in {"active", "write", "rollback"}
            /\ k \notin WrittenBy(txn[t])' )
          => tx_get(txn[t], k, kv).val = (tx_get(txn[t], k, kv).val)']_vars

\* the steps in which a call of T.rollback() ends
RollbackEnds(t) ==
    \/ Transaction_rollback_remove(t)
    \/ Transaction_rollback_lookup(t) /\ txn'[t].state # "rollback"

\* C7: after T.rollback() the backing holds no record of T's version, T's
\* version is not in the registry, and the records of other versions are
\* what they were.
C7_RollbackCleanliness ==
    [][\A t \in Threads :
          RollbackEnds(t) =>
              /\ \A e \in DOMAIN kv' : decode_key(e).version # txn[t].version
              /\ txn[t].version \notin DOMAIN ACTIVE_TXN'
              /\ \A e \in DOMAIN kv :
                    decode_key(e).version # txn[t].version =>
                        e \in DOMAIN kv' /\ kv'[e] = kv[e]
              /\ DOMAIN kv' \subseteq DOMAIN kv]_vars

\* C8: after a successful T.set(k, v) a following T.get(k) returns Some(v),
\* and after a successful T.delete(k) it returns None, whatever records other
\* transactions hold for k: a get of a key T has written returns T's own
\* record.
C8_ReadYourOwnWrites ==
    (last.op = "get" /\ last.status = "ok" /\ last.key \in WrittenBy(txn[last.thread])) =>
        last.val = kv[encode(last.key, txn[last.thread].version)]

\* the steps in which a set or delete of thread t ends in a conflict
ConflictReturns(t) ==
    /\ \/ \E k \in RawKeys, v \in RawValues : Transaction_set(t, k, v)
       \/ \E k \in RawKeys : Transaction_delete(t, k)
    /\ last'.status = "conflict"

\* C12: a set or delete that detects a conflict reports it to its caller and
\* changes nothing: the backing, the registry and the transaction are what
\* they were, and no mutex is left held or unusable.
C12_ConflictRecoverable ==
    [][\A t \in Threads :
          ConflictReturns(t) =>
              /\ last'.thread = t
              /\ UNCHANGED <<kv, ACTIVE_TXN, txn>>
              /\ UNCHANGED <<kvLock, regLock, kvPoisoned, regPoisoned>>]_vars

\* the steps of a call of set, delete, commit or rollback on the Transaction
\* of thread t
CallSteps(t) ==
    \/ \E k \in RawKeys, v \in RawValues : Transaction_set(t, k, v)
    \/ \E k \in RawKeys : Transaction_delete(t, k)
    \/ Transaction_write_insert(t)
    \/ \E kept \in BOOLEAN : Transaction_commit_then(t, kept)
    \/ Transaction_rollback_lookup(t)
    \/ \E kept \in BOOLEAN : Transaction_rollback_remove_then(t, kept)

\* C13: once a transaction has committed or rolled back, no call of set,
\* delete, commit or rollback on it changes the backing or the registry, and
\* its version does not come back as a key of the registry.
C13_TerminatedInert ==
    [][\A t \in Threads :
          (txn[t].ended /\ CallSteps(t)) =>
              /\ UNCHANGED <<kv, ACTIVE_TXN>>
              /\ txn[t].version \notin DOMAIN ACTIVE_TXN']_vars

\* scenario 6 at its third snapshot, T3 being the Transaction of thread t:
\* over the seeded state T1 has set a=a2 and e=e2 and committed, T2 began
\* while T1 was active, has deleted b and is not committed, and T3 has begun
\* after T1's commit
Scenario6(t) ==
    /\ txn[t].state = "active" /\ txn[t].version = FirstVersion + 3
    /\ txn[t].committed_at_begin = {FirstVersion, FirstVersion + 1}
    /\ \E u \in Threads \ {t} :
          /\ txn[u].state = "active" /\ txn[u].version = FirstVersion + 2
          /\ txn[u].active_xid = {FirstVersion + 1}
    /\ DOMAIN ACTIVE_TXN = {FirstVersion + 2, FirstVersion + 3}
    /\ ACTIVE_TXN[FirstVersion + 2] = << <<98>> >>
    /\ ACTIVE_TXN[FirstVersion + 3] = <<>>
    /\ DOMAIN kv = {encode(k, FirstVersion) : k \in MainKeys}
                      \cup {encode(k, FirstVersion + 1) : k \in MainSetKeys}
                      \cup {encode(k, FirstVersion + 2) : k \in MainDeleteKeys}
    /\ \A k \in MainSetKeys : kv[encode(k, FirstVersion + 1)] = Some(MainValue(k, 2))
    /\ \A k \in MainDeleteKeys : kv[encode(k, FirstVersion + 2)] = None
    /\ ~kvPoisoned

\* what the snapshot of thread t is in the current state, and what its
\* print_all printed if that was the last call
SnapshotIs(t, pairs) ==
    /\ print_all(txn[t], kv) = pairs
    /\ (last.op = "print_all" /\ last.thread = t) => last.val = pairs

\* C14 as amended: in scenario 6 the snapshot of T3 is a=a2, b=b1, c=c1,
\* d=d1, e=e2: T3 sees the writes of T1 and not the delete of b by T2.
C14_ThirdSnapshot ==
    \A t \in Threads :
        Scenario6(t) =>
            SnapshotIs(t, << <<<<97>>, <<97, 50>>>>, <<<<98>>, <<98, 49>>>>,
                             <<<<99>>, <<99, 49>>>>, <<<<100>>, <<100, 49>>>>,
                             <<<<101>>, <<101, 50>>>> >>)

\* T3 has printed its snapshot in scenario 6
C14_Witness ==
    \E t \in Threads :
        Scenario6(t) /\ last.op = "print_all" /\ last.thread = t /\ last.status = "ok"

\* C14 as stated: in scenario 6 the snapshot of T3 is a=a2, c=c1, d=d1, e=e2
C14_ThirdSnapshotAsStated ==
    \A t \in Threads :
        Scenario6(t) =>
            SnapshotIs(t, << <<<<97>>, <<97, 50>>>>, <<<<99>>, <<99, 49>>>>,
                             <<<<100>>, <<100, 49>>>>, <<<<101>>, <<101, 50>>>> >>)

\* C16: a thread that holds both mutexes took the mutex of the registry
\* first: no thread asks for the mutex of the registry while it holds the
\* mutex of the backing.  A thread inside write, after the conflict check,
\* holds the mutex of the backing and asks for that of the registry next.
C16_LockOrder ==
    \A t \in Threads : ~(kvLock = t /\ txn[t].state = "write")

\* the thread that holds the mutex thread t is asking for, 0 when t asks for
\* none or the mutex is free
WaitsFor(t) ==
    IF txn[t].state \in {"begin", "write"} THEN regLock
    ELSE IF txn[t].state = "rollback" THEN kvLock
    ELSE 0

\* C17: no reachable state has a set of threads each of which is inside a
\* call and waits for a mutex that another thread of the set holds.
C17_DeadlockFreedom ==
    \A S \in SUBSET Threads :
        S # {} => \E t \in S : WaitsFor(t) \notin S \ {t}

\* thread u has taken a version and its transaction has not ended
Live(u) == txn[u].state \in {"begin", "active", "write", "rollback"} /\ ~txn[u].ended

\* C18: begin is one step under the mutex of the registry: every version in
\* a transaction's snapshot is smaller than its own version, and when begin
\* returns, the snapshot holds every smaller version whose transaction is
\* still active.
C18_BeginAtomic ==
    /\ \A t \in Threads :
          InTxn(t) => \A v \in txn[t].active_xid : v < txn[t].version
    /\ (last.op = "begin" /\ last.status = "ok") =>
          \A u \in Threads \ {last.thread} :
              (Live(u) /\ txn[u].version < last.ver) =>
                  txn[u].version \in txn[last.thread].active_xid

\* the steps in which acquire_next_version returns to thread t
VersionReturned(t) == txn'[t].state = "begin" /\ txn[t].state # "begin"

\* C19: the first version returned is 1; each call returns the counter's
\* value and raises the counter by one; so every version handed out is below
\* the counter, a later call gets a greater version than every earlier one,
\* and no two transactions have the same version.
C19_VersionSource ==
    [][/\ \A t \in Threads :
             VersionReturned(t) =>
                 /\ txn'[t].version = VERSION
                 /\ VERSION' = VERSION + 1
                 /\ txn'[t].version >= FirstVersion
                 /\ \A u \in Threads \ {t} :
                       Live(u) => txn[u].version < txn'[t].version
                 /\ \A v \in committed \cup DOMAIN ACTIVE_TXN : v < txn'[t].version
       /\ (\A t \in Threads : ~VersionReturned(t)) => VERSION' = VERSION
       /\ \A t, u \in Threads :
             (t # u /\ Live(t)' /\ Live(u)') => txn'[t].version # txn'[u].version]_vars

\* two begin calls run at the same time and have got the versions 1 and 2
C19_Witness ==
    /\ txn[1].state = "begin" /\ txn[2].state = "begin"
    /\ {txn[1].version, txn[2].version} = {FirstVersion, FirstVersion + 1}
    /\ VERSION = FirstVersion + 2

\* C20: in the byte order of the backing the encoded keys of one raw key are
\* contiguous and ordered as their versions, so a descending iteration meets
\* the records of a raw key from the highest version down.
C20_EncodedKeyOrder ==
    \A e1, e2 \in DOMAIN kv :
        decode_key(e1).raw_key = decode_key(e2).raw_key =>
            /\ decode_key(e1).version < decode_key(e2).version => LexLess(e1, e2)
            /\ \A e \in DOMAIN kv :
                  (LexLess(e1, e) /\ LexLess(e, e2)) =>
                      decode_key(e).raw_key = decode_key(e1).raw_key

\* C21: when rollback walks the write-set of T, every removal of
\* (raw_key, T.version) finds a record, whatever writes T made, writes of one
\* key twice included: the assertion holds and rollback goes on to remove
\* T's version from the registry.
C21_RollbackRemovals ==
    (last.op = "rollback" /\ last.status \in {"ok", "assert"}) =>
        /\ last.status = "ok"
        /\ last.ver \notin DOMAIN ACTIVE_TXN

\* the raw keys of which the backing holds a record
RawKeysOf(m) == {decode_key(e).raw_key : e \in DOMAIN m}

\* C22: the pairs print_all emits for T are the (k, v) with T.get(k) =
\* Some(v), in ascending order of k, each key once; a key whose record of the
\* highest visible version is a tombstone is not among them.
C22_SnapshotAgreesWithGet ==
    (last.op = "print_all" /\ last.status = "ok") =>
        LET tx == txn[last.thread]
            pairs == last.val
        IN  /\ {pairs[i] : i \in 1..Len(pairs)}
                  = {<<k, tx_get(tx, k, kv).val[1]>> :
                        k \in {x \in RawKeysOf(kv) : tx_get(tx, x, kv).val # None}}
            /\ \A i \in 1..(Len(pairs) - 1) : LexLess(pairs[i][1], pairs[i + 1][1])
            /\ \A i \in 1..Len(pairs) : ReadRule(tx, pairs[i][1]).val # None

====
